---- MODULE Spec2Model ----
(***************************************************************************)
(* Model of load-testing/websocket_stress.py: CentrifugoStressTester.      *)
(*                                                                         *)
(* All coroutines run on one asyncio event loop, so the code between two   *)
(* awaits of a task is one atomic action.  A task's pc names the await it  *)
(* is suspended in.  requests.get / requests.post are synchronous calls    *)
(* and are part of the step that makes them.  The server, the token        *)
(* endpoint and the chat endpoint are the environment: their outcomes are  *)
(* chosen nondeterministically.                                            *)
(***************************************************************************)
EXTENDS Integers, Sequences, FiniteSets, TLC

\* ---- bounds of the model -------------------------------------------------
MaxClients == 1      \* num_clients ranges over 1..MaxClients
MaxChats == 1        \* num_chats ranges over 1..MaxChats
MaxMessages == 2     \* num_messages (duration // 10) ranges over 0..MaxMessages
MaxFaults == 5       \* failures the environment injects that cost an attempt
MaxLoopCloses == 1   \* closes the peer makes while a session is in the receive loop
MaxRecv == 1         \* frames the server pushes to receive loops
MaxSubscribes == 3   \* subscribe frames a CentrifugoWebSocketClient sends on one connection

\* ---- program constants ---------------------------------------------------
max_reconnects == 5
NumScenarios == 3             \* len(scenarios) in main
BackoffRange == 1..3          \* random.uniform(1, 3), in whole time units

Clients == 1..MaxClients
Chats == 1..MaxChats
Channels == {"chat:a", "chat:b", "chat:c"}     \* channels a locust client subscribes to

StatKeys == {"connections_created", "connections_failed", "messages_sent",
             "messages_received", "reconnections", "errors"}

VARIABLES
    running,             \* self.running
    stats,               \* self.stats
    orch,                \* position of run_stress_test
    scenario,            \* main: scenarios begun so far
    num_clients, num_chats, num_messages,   \* arguments of the run
    pc,                  \* per session task: the await it is suspended in
    reconnect_attempts,  \* per session task: local reconnect_attempts
    token,               \* per session task: local token (0: none), serial of the issued token
    delay,               \* per session task: the backoff sleep in progress (0: none)
    frames,              \* per session task: frames sent on the current websocket
    websocket,           \* per session task: the connection held in local websocket
    dpc,                 \* per driver task: position
    iteration,           \* per driver task: iterations of the for loop begun
    \* history variables
    ops,                 \* increment statements executed, per counter
    started,             \* per session: websockets.connect calls begun
    fetchedAt,           \* per session: value of started when token was fetched
    failedBy,            \* per session: increments of connections_failed it made
    issued,              \* tokens issued by the token endpoint
    loopCloses,          \* closes observed inside listen_for_messages
    activations,         \* entries into listen_for_messages
    drvSent, drvErr,     \* per driver: its increments of messages_sent / errors
    \* locustfile.py: one CentrifugoWebSocketClient and its caller
    connected,           \* self.connected
    subscriptions,       \* self.subscriptions: channel -> id (0: no entry)
    self_websocket,      \* self.websocket: "none", "open" or "closed"
    lc_pc,               \* the await the client's caller is suspended in
    lc_local,            \* locals channel and sub_id of the subscribe in progress
    lc_ids               \* history: ids of the frames sent on the current connection

vars == <<running, stats, orch, scenario, num_clients, num_chats, num_messages, pc,
          reconnect_attempts, token, delay, frames, websocket, dpc, iteration, ops,
          started, fetchedAt, failedBy, issued, loopCloses, activations,
          drvSent, drvErr,
          connected, subscriptions, self_websocket, lc_pc, lc_local, lc_ids>>

locVars == <<connected, subscriptions, self_websocket, lc_pc, lc_local, lc_ids>>
stressVars == <<running, stats, orch, scenario, num_clients, num_chats, num_messages, pc,
                reconnect_attempts, token, delay, frames, websocket, dpc, iteration,
                ops, started, fetchedAt, failedBy, issued, loopCloses, activations,
                drvSent, drvErr>>

sessVars == <<pc, reconnect_attempts, token, delay, frames, websocket, started,
              fetchedAt, failedBy, issued, loopCloses, activations>>
drvVars == <<dpc, iteration, drvSent, drvErr>>
runVars == <<running, orch, scenario, num_clients, num_chats, num_messages>>

ZeroStats == [k \in StatKeys |-> 0]

\* no connection held: before websockets.connect returns, and once the peer
\* has closed the connection (ConnectionClosed)
NoSocket == [open |-> FALSE, replies |-> 0, pinged |-> FALSE]

\* the connection websockets.connect returns: open, no frame received on it
\* yet, no ping sent on it yet
NewSocket == [open |-> TRUE, replies |-> 0, pinged |-> FALSE]

\* a lost update: the write uses a value of the counter read before another
\* task's increment
IncStale(st, k) == [st EXCEPT ![k] = IF @ = 1 THEN 1 ELSE @ + 1]

\* self.stats[k] += 1 : read and write with no await in between
Inc(st, k) == [st EXCEPT ![k] = @ + 1]

\* history: one more increment statement executed on counter k
Op(o, k) == [o EXCEPT ![k] = @ + 1]

RECURSIVE Sum(_, _)
Sum(f, S) == IF S = {} THEN 0
             ELSE LET x == CHOOSE y \in S : TRUE IN f[x] + Sum(f, S \ {x})

\* failures injected so far that cost some session an attempt
Faults == Sum(reconnect_attempts, Clients)

SessionTerminal(s) == pc[s] \in {"none", "done", "raised"}
DriverTerminal(d) == dpc[d] \in {"none", "done"}
AllTerminal == (\A s \in Clients : SessionTerminal(s)) /\ (\A d \in Chats : DriverTerminal(d))

\* ---- construction --------------------------------------------------------
Init ==
    /\ running = TRUE
    /\ stats = ZeroStats
    /\ orch = "created"
    /\ scenario = 0
    /\ num_clients = 0 /\ num_chats = 0 /\ num_messages = 0
    /\ pc = [s \in Clients |-> "none"]
    /\ reconnect_attempts = [s \in Clients |-> 0]
    /\ token = [s \in Clients |-> 0]
    /\ delay = [s \in Clients |-> 0]
    /\ frames = [s \in Clients |-> <<>>]
    /\ websocket = [s \in Clients |-> NoSocket]
    /\ dpc = [d \in Chats |-> "none"]
    /\ iteration = [d \in Chats |-> 0]
    /\ ops = ZeroStats
    /\ started = [s \in Clients |-> 0]
    /\ fetchedAt = [s \in Clients |-> 0]
    /\ failedBy = [s \in Clients |-> 0]
    /\ issued = 0
    /\ loopCloses = 0
    /\ activations = 0
    /\ drvSent = [d \in Chats |-> 0]
    /\ drvErr = [d \in Chats |-> 0]
    /\ connected = FALSE
    /\ subscriptions = [c \in Channels |-> 0]
    /\ self_websocket = "none"
    /\ lc_pc = "idle"
    /\ lc_local = [channel |-> "", sub_id |-> 0]
    /\ lc_ids = <<>>

\* ---- CentrifugoStressTester.get_token ------------------------------------
TokenResponses == {"200", "500", "error"}     \* status 200, another status, transport error

\* TRUE when get_token returns a token, FALSE when it raises
get_token(resp) == resp = "200"

\* ---- CentrifugoStressTester.create_websocket_client ----------------------
\* line 51: while self.running and reconnect_attempts < max_reconnects
LoopCond(att) == running /\ att < max_reconnects

\* the test of line 82 without its condition: every ending counts as a failure
GiveUpAlways(att) == TRUE

\* the test of line 82 also counting a session that the stop signal ended
GiveUpOnStop(att) == att >= max_reconnects \/ ~running

\* line 82: if reconnect_attempts >= max_reconnects
GiveUp(att) == att >= max_reconnects

\* The task reaches the head of the while loop with reconnect_attempts = att,
\* statistics st and history o: it either begins the next websockets.connect
\* or leaves the loop, runs lines 82-84 and returns.
WhileHead(s, att, st, o) ==
    IF LoopCond(att)
    THEN /\ pc' = [pc EXCEPT ![s] = "connecting"]
         /\ started' = [started EXCEPT ![s] = @ + 1]
         /\ stats' = st
         /\ ops' = o
         /\ failedBy' = failedBy
    ELSE /\ pc' = [pc EXCEPT ![s] = "done"]
         /\ started' = started
         /\ IF GiveUp(att)
            THEN /\ stats' = Inc(st, "connections_failed")
                 /\ ops' = Op(o, "connections_failed")
                 /\ failedBy' = [failedBy EXCEPT ![s] = @ + 1]
            ELSE /\ stats' = st
                 /\ ops' = o
                 /\ failedBy' = failedBy

\* line 90 with the test never true: listen_for_messages returns at once
ListenHeadOnce(s, st, o) == WhileHead(s, reconnect_attempts[s], st, o)

\* line 90: while self.running; when it is false listen_for_messages returns
\* normally and the task is back at the head of the outer loop
ListenHead(s, st, o) ==
    IF running
    THEN /\ pc' = [pc EXCEPT ![s] = "listening"]
         /\ stats' = st
         /\ ops' = o
         /\ UNCHANGED <<started, failedBy>>
    ELSE WhileHead(s, reconnect_attempts[s], st, o)

\* a ConnectionClosed handled by both except clauses: errors is incremented
\* as well as the clause's own counter
HandlerCountsBoth(s, counter) ==
    /\ reconnect_attempts' = [reconnect_attempts EXCEPT ![s] = @ + 1]
    /\ stats' = Inc(Inc(stats, counter), "errors")
    /\ ops' = Op(Op(ops, counter), "errors")
    /\ \E d \in BackoffRange : delay' = [delay EXCEPT ![s] = d]
    /\ pc' = [pc EXCEPT ![s] = "backoff"]
    /\ frames' = [frames EXCEPT ![s] = <<>>]
    /\ websocket' = [websocket EXCEPT ![s] = NoSocket]
    /\ UNCHANGED <<started, failedBy>>

\* the two except clauses, lines 72-76 and 77-81: counter is "reconnections"
\* or "errors"; the task then sleeps random.uniform(1, 3)
Handler(s, counter) ==
    /\ reconnect_attempts' = [reconnect_attempts EXCEPT ![s] = @ + 1]
    /\ stats' = Inc(stats, counter)
    /\ ops' = Op(ops, counter)
    /\ \E d \in BackoffRange : delay' = [delay EXCEPT ![s] = d]
    /\ pc' = [pc EXCEPT ![s] = "backoff"]
    /\ frames' = [frames EXCEPT ![s] = <<>>]
    /\ websocket' = [websocket EXCEPT ![s] = NoSocket]
    /\ UNCHANGED <<started, failedBy>>

\* first step of the task: line 48 and the first evaluation of the loop head
Start(s) ==
    /\ pc[s] = "start"
    /\ \E resp \in TokenResponses :
         IF get_token(resp)
         THEN /\ issued' = issued + 1
              /\ token' = [token EXCEPT ![s] = issued + 1]
              /\ fetchedAt' = [fetchedAt EXCEPT ![s] = started[s]]
              /\ WhileHead(s, reconnect_attempts[s], stats, ops)
         ELSE /\ pc' = [pc EXCEPT ![s] = "raised"]     \* the exception leaves the task
              /\ UNCHANGED <<issued, token, fetchedAt, stats, ops, started, failedBy>>
    /\ UNCHANGED <<reconnect_attempts, delay, frames, websocket, loopCloses, activations>>
    /\ UNCHANGED drvVars /\ UNCHANGED runVars /\ UNCHANGED locVars

\* both handshake frames sent at once, the reply to the first not awaited
ConnectOkPipelined(s) ==
    /\ pc[s] = "connecting"
    /\ stats' = Inc(stats, "connections_created")
    /\ ops' = Op(ops, "connections_created")
    /\ frames' = [frames EXCEPT ![s] = <<[id |-> 1, token |-> token[s]],
                                         [id |-> 2, token |-> 0]>>]
    /\ websocket' = [websocket EXCEPT ![s] = NewSocket]
    /\ pc' = [pc EXCEPT ![s] = "await_sub_reply"]
    /\ UNCHANGED <<reconnect_attempts, token, delay, started, fetchedAt, failedBy,
                   issued, loopCloses, activations>>
    /\ UNCHANGED drvVars /\ UNCHANGED runVars /\ UNCHANGED locVars

\* lines 54-60: websockets.connect returns, the connect frame is sent
ConnectOk(s) ==
    /\ pc[s] = "connecting"
    /\ stats' = Inc(stats, "connections_created")
    /\ ops' = Op(ops, "connections_created")
    /\ frames' = [frames EXCEPT ![s] = <<[id |-> 1, token |-> token[s]]>>]
    /\ websocket' = [websocket EXCEPT ![s] = NewSocket]
    /\ pc' = [pc EXCEPT ![s] = "await_connect_reply"]
    /\ UNCHANGED <<reconnect_attempts, token, delay, started, fetchedAt, failedBy,
                   issued, loopCloses, activations>>
    /\ UNCHANGED drvVars /\ UNCHANGED runVars /\ UNCHANGED locVars

\* line 54 raises (refused, handshake rejected, open timeout): except Exception
ConnectFail(s) ==
    /\ pc[s] = "connecting"
    /\ Faults < MaxFaults
    /\ Handler(s, "errors")
    /\ UNCHANGED <<token, fetchedAt, issued, loopCloses, activations>>
    /\ UNCHANGED drvVars /\ UNCHANGED runVars /\ UNCHANGED locVars

\* lines 61-68: the reply to the connect frame arrives, the subscribe frame is sent
ConnectReply(s) ==
    /\ pc[s] = "await_connect_reply"
    /\ frames' = [frames EXCEPT ![s] = Append(@, [id |-> 2, token |-> 0])]
    /\ websocket' = [websocket EXCEPT ![s].replies = @ + 1]
    /\ pc' = [pc EXCEPT ![s] = "await_sub_reply"]
    /\ UNCHANGED <<stats, ops, reconnect_attempts, token, delay, started, fetchedAt,
                   failedBy, issued, loopCloses, activations>>
    /\ UNCHANGED drvVars /\ UNCHANGED runVars /\ UNCHANGED locVars

\* the increment of line 55 made after the subscribe reply as well
SubReplyCounts(s) ==
    /\ pc[s] = "await_sub_reply"
    /\ activations' = activations + 1
    /\ websocket' = [websocket EXCEPT ![s].replies = @ + 1]
    /\ ListenHead(s, Inc(stats, "connections_created"), Op(ops, "connections_created"))
    /\ UNCHANGED <<reconnect_attempts, token, delay, frames, fetchedAt, issued, loopCloses>>
    /\ UNCHANGED drvVars /\ UNCHANGED runVars /\ UNCHANGED locVars

\* lines 69-71: the reply to the subscribe frame arrives, listen_for_messages begins
SubReply(s) ==
    /\ pc[s] = "await_sub_reply"
    /\ activations' = activations + 1
    /\ websocket' = [websocket EXCEPT ![s].replies = @ + 1]
    /\ ListenHead(s, stats, ops)
    /\ UNCHANGED <<reconnect_attempts, token, delay, frames, fetchedAt, issued, loopCloses>>
    /\ UNCHANGED drvVars /\ UNCHANGED runVars /\ UNCHANGED locVars

\* lines 60-61 or 68-69 raise ConnectionClosed: except ConnectionClosed
HandshakeClosed(s) ==
    /\ pc[s] \in {"await_connect_reply", "await_sub_reply"}
    /\ Faults < MaxFaults
    /\ Handler(s, "reconnections")
    /\ UNCHANGED <<token, fetchedAt, issued, loopCloses, activations>>
    /\ UNCHANGED drvVars /\ UNCHANGED runVars /\ UNCHANGED locVars

\* ---- CentrifugoStressTester.listen_for_messages --------------------------
\* lines 92-98: a frame arrives within 30 s
RecvMessage(s) ==
    /\ pc[s] = "listening"
    /\ stats["messages_received"] < MaxRecv
    /\ \E issue \in BOOLEAN :                  \* random.random() < 0.01
         IF issue
         THEN /\ pc' = [pc EXCEPT ![s] = "simulating"]
              /\ stats' = Inc(stats, "messages_received")
              /\ ops' = Op(ops, "messages_received")
              /\ UNCHANGED <<started, failedBy>>
         ELSE ListenHead(s, Inc(stats, "messages_received"), Op(ops, "messages_received"))
    /\ UNCHANGED <<reconnect_attempts, token, delay, frames, websocket, fetchedAt,
                   issued, loopCloses, activations>>
    /\ UNCHANGED drvVars /\ UNCHANGED runVars /\ UNCHANGED locVars

\* lines 110-129: the sleep of simulate_client_issue ends
SimulateDone(s) ==
    /\ pc[s] = "simulating"
    /\ ListenHead(s, stats, ops)
    /\ UNCHANGED <<reconnect_attempts, token, delay, frames, websocket, fetchedAt,
                   issued, loopCloses, activations>>
    /\ UNCHANGED drvVars /\ UNCHANGED runVars /\ UNCHANGED locVars

\* the timeout of wait_for taken for a lost connection
RecvTimeoutReconnects(s) ==
    /\ pc[s] = "listening"
    /\ Faults < MaxFaults
    /\ Handler(s, "reconnections")
    /\ UNCHANGED <<token, fetchedAt, issued, loopCloses, activations>>
    /\ UNCHANGED drvVars /\ UNCHANGED runVars /\ UNCHANGED locVars

\* lines 99-102: wait_for times out.  The idle test of line 100 compares the
\* wall clock with last_message_time while the 30 s of wait_for are counted
\* by the loop's monotonic clock, so both outcomes are possible; when it
\* holds a ping is sent on the same connection, and the ping succeeds
RecvTimeout(s) ==
    /\ pc[s] = "listening"
    /\ \E idle \in BOOLEAN :
         websocket' = [websocket EXCEPT ![s].pinged = @ \/ idle]
    /\ ListenHead(s, stats, ops)
    /\ UNCHANGED <<reconnect_attempts, token, delay, frames, fetchedAt, issued,
                   loopCloses, activations>>
    /\ UNCHANGED drvVars /\ UNCHANGED runVars /\ UNCHANGED locVars

\* lines 99-102, 106-108, 72-76: wait_for times out and the ping raises
\* ConnectionClosed inside the except clause; it leaves listen_for_messages
\* through line 108 and is handled by except ConnectionClosed at line 72
PingClosed(s) ==
    /\ pc[s] = "listening"
    /\ Faults < MaxFaults
    /\ loopCloses < MaxLoopCloses
    /\ loopCloses' = loopCloses + 1
    /\ Handler(s, "reconnections")
    /\ UNCHANGED <<token, fetchedAt, issued, activations>>
    /\ UNCHANGED drvVars /\ UNCHANGED runVars /\ UNCHANGED locVars

\* lines 103-105: recv raises ConnectionClosed; break, listen_for_messages
\* returns normally and the task is at the head of the outer loop
RecvClosed(s) ==
    /\ pc[s] = "listening"
    /\ loopCloses < MaxLoopCloses
    /\ loopCloses' = loopCloses + 1
    /\ frames' = [frames EXCEPT ![s] = <<>>]
    /\ websocket' = [websocket EXCEPT ![s] = NoSocket]
    /\ WhileHead(s, reconnect_attempts[s], stats, ops)
    /\ UNCHANGED <<reconnect_attempts, token, delay, fetchedAt, issued, activations>>
    /\ UNCHANGED drvVars /\ UNCHANGED runVars /\ UNCHANGED locVars

\* lines 76 and 81: the backoff sleep ends
BackoffDone(s) ==
    /\ pc[s] = "backoff"
    /\ delay' = [delay EXCEPT ![s] = 0]
    /\ WhileHead(s, reconnect_attempts[s], stats, ops)
    /\ UNCHANGED <<reconnect_attempts, token, frames, websocket, fetchedAt, issued,
                   loopCloses, activations>>
    /\ UNCHANGED drvVars /\ UNCHANGED runVars /\ UNCHANGED locVars

\* ---- CentrifugoStressTester.send_chat_messages ---------------------------
PostResponses == {"200", "500"}      \* requests.post returns; it may also raise

RECURSIVE IncTimes(_, _, _)
IncTimes(st, k, n) == IF n = 0 THEN st ELSE IncTimes(Inc(st, k), k, n - 1)

RECURSIVE OpTimes(_, _, _)
OpTimes(o, k, n) == IF n = 0 THEN o ELSE OpTimes(Op(o, k), k, n - 1)

\* lines 140-141: the counter a returned response increments, if any
SentCounter(resp) == IF resp = "200" THEN {"messages_sent"} ELSE {}

\* The task runs from its start, or from the end of the sleep of line 145, to
\* its next await.  An iteration whose requests.post raises reaches no await
\* (lines 146-148), so e such iterations run in the same step; then either the
\* loop is over, or one more iteration gets a response and sleeps.
DriverRun(d) ==
    /\ dpc[d] \in {"start", "sleeping"}
    /\ \E e \in 0..(num_messages - iteration[d]) :
         LET st == IncTimes(stats, "errors", e)
             o == OpTimes(ops, "errors", e)
         IN  /\ drvErr' = [drvErr EXCEPT ![d] = @ + e]
             /\ IF iteration[d] + e < num_messages
                THEN \E resp \in PostResponses :
                       /\ iteration' = [iteration EXCEPT ![d] = @ + e + 1]
                       /\ dpc' = [dpc EXCEPT ![d] = "sleeping"]
                       /\ IF SentCounter(resp) # {}
                          THEN /\ stats' = Inc(st, "messages_sent")
                               /\ ops' = Op(o, "messages_sent")
                               /\ drvSent' = [drvSent EXCEPT ![d] = @ + 1]
                          ELSE /\ stats' = st
                               /\ ops' = o
                               /\ drvSent' = drvSent
                ELSE /\ iteration' = [iteration EXCEPT ![d] = @ + e]
                     /\ dpc' = [dpc EXCEPT ![d] = "done"]
                     /\ stats' = st
                     /\ ops' = o
                     /\ drvSent' = drvSent
    /\ UNCHANGED sessVars /\ UNCHANGED runVars /\ UNCHANGED locVars

\* ---- CentrifugoStressTester.run_stress_test ------------------------------
\* lines 150-166: the tasks are created, the orchestrator sleeps
RunStressTest ==
    /\ orch = "created"
    /\ \E n \in 1..MaxClients, m \in 1..MaxChats, k \in 0..MaxMessages :
         /\ num_clients' = n
         /\ num_chats' = m
         /\ num_messages' = k
         /\ pc' = [s \in Clients |-> IF s <= n THEN "start" ELSE "none"]
         /\ dpc' = [d \in Chats |-> IF d <= m THEN "start" ELSE "none"]
    /\ orch' = "sleeping"
    /\ UNCHANGED <<running, scenario, stats, ops, reconnect_attempts, token, delay, frames,
                   websocket, started, fetchedAt, failedBy, issued, loopCloses, activations,
                   iteration, drvSent, drvErr>>
    /\ UNCHANGED locVars

\* lines 166-168: the sleep ends, the stop signal is raised, gather is awaited.
\* Every task was scheduled before the sleep's timer, so each has run its
\* first step.
Stop ==
    /\ orch = "sleeping"
    /\ \A s \in Clients : pc[s] # "start"
    /\ \A d \in Chats : dpc[d] # "start"
    /\ running' = FALSE
    /\ orch' = "gathering"
    /\ UNCHANGED <<scenario, stats, ops, num_clients, num_chats, num_messages>>
    /\ UNCHANGED sessVars /\ UNCHANGED drvVars /\ UNCHANGED locVars

\* gather not awaited: print_stats runs while tasks are still running
GatherNoWait ==
    /\ orch = "gathering"
    /\ orch' = "done"
    /\ UNCHANGED <<running, scenario, stats, ops, num_clients, num_chats, num_messages>>
    /\ UNCHANGED sessVars /\ UNCHANGED drvVars /\ UNCHANGED locVars

\* lines 168-169: gather(return_exceptions=True) returns once every task has
\* ended, normally or with an exception; print_stats reads the counters
Gather ==
    /\ orch = "gathering"
    /\ AllTerminal
    /\ orch' = "done"
    /\ UNCHANGED <<running, scenario, stats, ops, num_clients, num_chats, num_messages>>
    /\ UNCHANGED sessVars /\ UNCHANGED drvVars /\ UNCHANGED locVars

\* ---- specification -------------------------------------------------------
SessionStep(s) ==
    \/ Start(s)
    \/ ConnectOk(s)
    \/ ConnectFail(s)
    \/ ConnectReply(s)
    \/ SubReply(s)
    \/ HandshakeClosed(s)
    \/ RecvMessage(s)
    \/ SimulateDone(s)
    \/ RecvTimeout(s)
    \/ PingClosed(s)
    \/ RecvClosed(s)
    \/ BackoffDone(s)

Next ==
    \/ RunStressTest
    \/ Stop
    \/ Gather
    \/ \E s \in Clients : SessionStep(s)
    \/ \E d \in Chats : DriverRun(d)

Spec == Init /\ [][Next]_vars

TypeOK ==
    /\ running \in BOOLEAN
    /\ \A k \in StatKeys : stats[k] \in Nat /\ ops[k] \in Nat
    /\ orch \in {"created", "sleeping", "gathering", "done"}
    /\ \A s \in Clients : reconnect_attempts[s] \in 0..max_reconnects

\* The waits the code bounds itself end: asyncio.sleep, wait_for(..., 30),
\* websockets.connect (open_timeout), the synchronous HTTP calls.  The two
\* handshake recv() calls of lines 61 and 69 have no timeout: whether a reply
\* or a close ever arrives is up to the server, so no fairness is assumed for
\* ConnectReply, SubReply and HandshakeClosed.
FairSpec ==
    /\ Spec
    /\ WF_vars(RunStressTest) /\ WF_vars(Stop) /\ WF_vars(Gather)
    /\ \A d \in Chats : WF_vars(DriverRun(d))
    /\ \A s \in Clients :
         /\ WF_vars(Start(s))
         /\ WF_vars(ConnectOk(s) \/ ConnectFail(s))
         /\ WF_vars(RecvMessage(s) \/ RecvTimeout(s) \/ PingClosed(s) \/ RecvClosed(s))
         /\ WF_vars(SimulateDone(s))
         /\ WF_vars(BackoffDone(s))

\* ---- main -----------------------------------------------------------------
\* lines 196-202 and 150-166: one iteration of the loop of main up to the
\* first suspension of run_stress_test.  The counters are replaced by zeros,
\* running is set to True, and run_stress_test, entered without suspending,
\* creates the tasks of the scenario and sleeps.  The new tasks have fresh
\* locals; the history variables are those of the run that begins.
BeginScenario ==
    /\ scenario' = scenario + 1
    /\ stats' = ZeroStats
    /\ ops' = ZeroStats
    /\ running' = TRUE
    /\ \E n \in 1..MaxClients, m \in 1..MaxChats, k \in 0..MaxMessages :
         /\ num_clients' = n
         /\ num_chats' = m
         /\ num_messages' = k
         /\ pc' = [s \in Clients |-> IF s <= n THEN "start" ELSE "none"]
         /\ dpc' = [d \in Chats |-> IF d <= m THEN "start" ELSE "none"]
    /\ orch' = "sleeping"
    /\ reconnect_attempts' = [s \in Clients |-> 0]
    /\ token' = [s \in Clients |-> 0]
    /\ delay' = [s \in Clients |-> 0]
    /\ frames' = [s \in Clients |-> <<>>]
    /\ websocket' = [s \in Clients |-> NoSocket]
    /\ iteration' = [d \in Chats |-> 0]
    /\ started' = [s \in Clients |-> 0]
    /\ fetchedAt' = [s \in Clients |-> 0]
    /\ failedBy' = [s \in Clients |-> 0]
    /\ issued' = 0
    /\ loopCloses' = 0
    /\ activations' = 0
    /\ drvSent' = [d \in Chats |-> 0]
    /\ drvErr' = [d \in Chats |-> 0]
    /\ UNCHANGED locVars

\* main that does not await the end of run_stress_test: the next scenario
\* begins when the duration of the previous one is over, while gather is
\* still waiting for its tasks
MainRunEarly ==
    /\ orch \in {"created", "gathering", "done"}
    /\ scenario < NumScenarios
    /\ BeginScenario

\* lines 194-203: main begins a scenario, the first one after constructing
\* the tester, a later one when run_stress_test has returned (line 198) and
\* the sleep of line 203 is over
MainRun ==
    /\ orch \in {"created", "done"}
    /\ scenario < NumScenarios
    /\ BeginScenario

MainNext ==
    \/ MainRun
    \/ Stop
    \/ Gather
    \/ \E s \in Clients : SessionStep(s)
    \/ \E d \in Chats : DriverRun(d)

MainSpec == Init /\ [][MainNext]_vars

\* ---- locustfile.py: CentrifugoWebSocketClient ---------------------------
\* len(self.subscriptions)
SubscriptionCount == Cardinality({c \in Channels : subscriptions[c] # 0})

\* line 53: sub_id = len(self.subscriptions) + 2
SubId == SubscriptionCount + 2

NoLocal == [channel |-> "", sub_id |-> 0]

\* lines 30-42 and 45-48: connect() on a client that is not connected.  When
\* websockets.connect raises, connected is set to False again and nothing
\* else changes; otherwise the connect frame (id 1) is sent
LcConnect ==
    /\ lc_pc = "idle"
    /\ ~connected
    /\ \E ok \in BOOLEAN :
         IF ok
         THEN /\ self_websocket' = "open"
              /\ connected' = TRUE
              /\ lc_ids' = <<1>>
              /\ lc_pc' = "connect_recv"
         ELSE UNCHANGED <<self_websocket, connected, lc_ids, lc_pc>>
    /\ UNCHANGED <<subscriptions, lc_local>>
    /\ UNCHANGED stressVars

\* lines 43-44: the reply to the connect frame arrives
LcConnectReply ==
    /\ lc_pc = "connect_recv"
    /\ lc_pc' = "idle"
    /\ UNCHANGED <<connected, subscriptions, self_websocket, lc_local, lc_ids>>
    /\ UNCHANGED stressVars

\* lines 43, 45-48: recv raises, the connection is gone
LcConnectClosed ==
    /\ lc_pc = "connect_recv"
    /\ connected' = FALSE
    /\ self_websocket' = "closed"
    /\ lc_pc' = "idle"
    /\ UNCHANGED <<subscriptions, lc_local, lc_ids>>
    /\ UNCHANGED stressVars

\* lines 50-60: subscribe(channel) on a connected client: the subscribe frame
\* is sent with id sub_id
LcSubscribe(channel) ==
    /\ lc_pc = "idle"
    /\ connected
    /\ self_websocket = "open"
    /\ Len(lc_ids) <= MaxSubscribes
    /\ lc_local' = [channel |-> channel, sub_id |-> SubId]
    /\ lc_ids' = Append(lc_ids, SubId)
    /\ lc_pc' = "subscribe_recv"
    /\ UNCHANGED <<connected, subscriptions, self_websocket>>
    /\ UNCHANGED stressVars

\* lines 61-63: the reply arrives, the channel is entered in subscriptions
LcSubscribeReply ==
    /\ lc_pc = "subscribe_recv"
    /\ subscriptions' = [subscriptions EXCEPT ![lc_local.channel] = lc_local.sub_id]
    /\ lc_local' = NoLocal
    /\ lc_pc' = "idle"
    /\ UNCHANGED <<connected, self_websocket, lc_ids>>
    /\ UNCHANGED stressVars

\* line 61 raises: the exception leaves subscribe, which resets nothing
LcSubscribeClosed ==
    /\ lc_pc = "subscribe_recv"
    /\ self_websocket' = "closed"
    /\ lc_local' = NoLocal
    /\ lc_pc' = "idle"
    /\ UNCHANGED <<connected, subscriptions, lc_ids>>
    /\ UNCHANGED stressVars

\* lines 84-87: disconnect()
LcDisconnect ==
    /\ lc_pc = "idle"
    /\ self_websocket # "none"
    /\ self_websocket' = "closed"
    /\ connected' = FALSE
    /\ UNCHANGED <<subscriptions, lc_pc, lc_local, lc_ids>>
    /\ UNCHANGED stressVars

LocustNext ==
    \/ LcConnect
    \/ LcConnectReply
    \/ LcConnectClosed
    \/ \E channel \in Channels : LcSubscribe(channel)
    \/ LcSubscribeReply
    \/ LcSubscribeClosed
    \/ LcDisconnect

LocustSpec == Init /\ [][LocustNext]_vars

\* ---- properties ----------------------------------------------------------
Raised == {s \in Clients : pc[s] = "raised"}

\* C1: once the stop signal is raised, every session and driver task
\* eventually ends, whatever await it is suspended in, and the orchestrator's
\* gather completes.
C1_StopTerminatesAll == (~running) ~> (AllTerminal /\ orch = "done")

\* C2: reconnect_attempts never decreases; every failed connect, every close
\* during the handshake and every close observed in the receive loop adds one
\* to it; so no session begins more than max_reconnects connection attempts.
C2_EveryFailureCostsAnAttempt ==
    [][\A s \in Clients :
         /\ reconnect_attempts'[s] >= reconnect_attempts[s]
         /\ (ConnectFail(s) \/ HandshakeClosed(s) \/ PingClosed(s) \/ RecvClosed(s))
              => reconnect_attempts'[s] = reconnect_attempts[s] + 1
         /\ started'[s] <= max_reconnects]_vars

\* C3: a session adds to connections_failed at most once, and only when it
\* has ended with reconnect_attempts = max_reconnects; a session that ended
\* with fewer attempts is not counted; connections_failed counts exactly
\* those sessions.
C3_FailedOnlyWhenExhausted ==
    /\ \A s \in Clients :
         /\ failedBy[s] <= 1
         /\ failedBy[s] = 1 => (pc[s] = "done" /\ reconnect_attempts[s] = max_reconnects)
         /\ (pc[s] = "done" /\ reconnect_attempts[s] < max_reconnects) => failedBy[s] = 0
    /\ stats["connections_failed"] = Sum(failedBy, Clients)

C3_Witness ==
    \E s \in Clients :
        /\ pc[s] = "done" /\ reconnect_attempts[s] = max_reconnects
        /\ failedBy[s] = 1 /\ stats["connections_failed"] = 1

C5_ScenarioB ==
    (orch = "done" /\ num_clients = 1 /\ issued = 0 /\ \A d \in Chats : drvErr[d] = 0)
        => (stats["connections_failed"] = 1 /\ stats["errors"] = max_reconnects)

\* C6 (scenario D): one session, one close observed in the receive loop, the
\* reconnect that follows reaches the receive loop again and nothing else
\* fails: the run ends with reconnections = 1 and connections_failed = 0.
C6_ScenarioD ==
    (orch = "done" /\ num_clients = 1 /\ loopCloses = 1
        /\ started[1] = 2 /\ activations = 2)
        => (stats["reconnections"] = 1 /\ stats["connections_failed"] = 0)

\* C7: a session begins a connection attempt other than its first only out
\* of a backoff sleep whose length is in the configured range.
C7_BackoffBetweenAttempts ==
    [][\A s \in Clients :
         (started'[s] = started[s] + 1 /\ started[s] >= 1)
            => (pc[s] = "backoff" /\ delay[s] \in BackoffRange)]_vars

\* C8: the connect frame of every attempt carries the session's token, and
\* that token was fetched after the previous attempt had begun.
C8_FreshTokenPerAttempt ==
    \A s \in Clients :
        pc[s] = "await_connect_reply"
            => /\ frames[s][1].token = token[s]
               /\ fetchedAt[s] >= started[s] - 1

\* C9: a task that ends with an exception changes no other task, gather
\* still returns, and when it returns the orchestrator adds one to errors for
\* each exception it collected.
C9_EscapedExceptionRecorded ==
    [][/\ \A s \in Clients :
            (pc[s] # "raised" /\ pc'[s] = "raised")
               => (dpc' = dpc /\ \A t \in Clients \ {s} : pc'[t] = pc[t])
       /\ (orch = "gathering" /\ orch' = "done")
            => stats'["errors"] = stats["errors"] + Cardinality(Raised)]_vars

\* C10: every iteration of a driver adds one to messages_sent or to errors.
C10_OneCounterPerIteration ==
    \A d \in Chats : drvSent[d] + drvErr[d] = iteration[d]

\* C11: a driver never begins more than num_messages iterations, and it
\* begins none once the stop signal has been raised.
C11_DriverStopsOnSignal ==
    [][\A d \in Chats :
         /\ iteration'[d] <= num_messages'
         /\ iteration'[d] > iteration[d] => running]_vars

\* C12 as stated: connections_created >= connections_failed in every state.
C12_CreatedAtLeastFailed ==
    stats["connections_created"] >= stats["connections_failed"]

\* C12 amended: every session counted in connections_failed began at least
\* max_reconnects connection attempts, so connections_failed is bounded by
\* the attempts begun, not by connections_created.
C12_FailedWithinAttempts ==
    max_reconnects * stats["connections_failed"] <= Sum(started, Clients)

\* a session failed for good although no transport connection was ever made
C12_Witness ==
    /\ stats["connections_failed"] = 1
    /\ stats["connections_created"] = 0
    /\ \E s \in Clients : pc[s] = "done" /\ started[s] = max_reconnects

\* C13: messages_received never exceeds messages_sent.
C13_ReceivedAtMostSent ==
    stats["messages_received"] <= stats["messages_sent"]

\* the session is in listen_for_messages (Active)
Active(s) == pc[s] \in {"listening", "simulating"}

\* scenario A: one chat, one session, the token request succeeded, no connect
\* failed and no connection was closed
ScenarioA ==
    /\ num_clients = 1 /\ num_chats = 1
    /\ issued = 1
    /\ Faults = 0 /\ loopCloses = 0

\* C14 (scenario A): the session, once in the receive loop, stays there as
\* long as the stop signal is not raised, and the run ends with the receive
\* loop entered once, connections_created = 1 and connections_failed = 0.
C14_ScenarioA ==
    [][ScenarioA' =>
         /\ \A s \in Clients : (Active(s) /\ running') => Active(s)'
         /\ orch' = "done" =>
              /\ activations' = 1
              /\ stats'["connections_created"] = 1
              /\ stats'["connections_failed"] = 0]_vars

C14_Witness ==
    /\ ScenarioA /\ orch = "done"
    /\ activations = 1
    /\ stats["connections_created"] = 1 /\ stats["connections_failed"] = 0
    /\ stats["messages_received"] = 1

\* C15: while the stop signal is not raised, a timeout of the receive wait
\* leaves the session in the receive loop on the same open connection and
\* changes no counter and no attempt count (at most a ping is sent); the
\* session leaves the receive loop only when a close of the connection is
\* observed.
C15_IdleTimeoutOnlyPings ==
    [][\A s \in Clients :
         /\ (RecvTimeout(s) /\ running) =>
              /\ pc'[s] = "listening"
              /\ websocket'[s].open
              /\ websocket'[s].replies = websocket[s].replies
              /\ UNCHANGED <<stats, reconnect_attempts, started, frames>>
         /\ (Active(s) /\ ~Active(s)' /\ running) =>
              /\ loopCloses' = loopCloses + 1
              /\ ~websocket'[s].open]_vars

\* a ping has been sent and the session is still in its first receive loop
C15_Witness ==
    \E s \in Clients :
        /\ running /\ pc[s] = "listening"
        /\ websocket[s].pinged /\ websocket[s].open
        /\ reconnect_attempts[s] = 0 /\ started[s] = 1
        /\ stats["connections_created"] = 1
        /\ stats["reconnections"] = 0 /\ stats["errors"] = 0

\* C16: a session task that has ended, that is about to connect again or
\* that sleeps before connecting again holds no open connection.
C16_NoConnectionLeftOpen ==
    \A s \in Clients :
        pc[s] \in {"done", "raised", "connecting", "backoff"} => ~websocket[s].open

\* C17: the stop signal is raised only at the end of the orchestrator's
\* sleep; the final statistics are read only when every session and driver
\* task has ended; no counter changes after they have been read.
C17_FinalStatsAfterDrain ==
    [][/\ (running /\ ~running') => (orch = "sleeping" /\ orch' = "gathering")
       /\ orch' = "done" => (~running' /\ AllTerminal')
       /\ orch = "done" => stats' = stats]_vars

\* the statistics have been read after a session and a driver did their work
C17_Witness ==
    /\ orch = "done" /\ ~running /\ AllTerminal
    /\ stats["connections_created"] >= 1
    /\ stats["messages_sent"] >= 1
    /\ \E s \in Clients : pc[s] = "done"

\* C18 as stated: connections_created equals the number of entries into the
\* receive loop.
C18_CreatedCountsActivations ==
    stats["connections_created"] = activations

\* C18 amended: connections_created grows by one exactly in the step in
\* which websockets.connect returns a connection, before any handshake frame
\* is sent; it is never below the number of entries into the receive loop.
C18_CreatedCountsConnects ==
    [][/\ \A s \in Clients :
            (pc[s] = "connecting" /\ pc'[s] = "await_connect_reply")
               => stats'["connections_created"] = stats["connections_created"] + 1
       /\ stats'["connections_created"] # stats["connections_created"]
            => \E s \in Clients :
                  /\ pc[s] = "connecting" /\ pc'[s] = "await_connect_reply"
                  /\ websocket'[s] = NewSocket
       /\ activations' <= stats'["connections_created"]]_vars

\* a connection whose handshake failed has been counted
C18_Witness ==
    \E s \in Clients :
        /\ pc[s] = "backoff" /\ started[s] = 1
        /\ stats["connections_created"] = 1
        /\ stats["reconnections"] = 1
        /\ activations = 0

\* the frames sent so far on the connection of s and the replies read from
\* it are in handshake order
HandshakeOrder(s) ==
    /\ Len(frames[s]) <= 2
    /\ websocket[s].open => Len(frames[s]) >= 1
    /\ Len(frames[s]) >= 1 => frames[s][1].id = 1
    /\ Len(frames[s]) = 2 => (frames[s][2].id = 2 /\ websocket[s].replies >= 1)
    /\ websocket[s].replies <= Len(frames[s])
    /\ Active(s) => (Len(frames[s]) = 2 /\ websocket[s].replies = 2)

\* C19: on every connection the connect frame (id 1) is sent first, the
\* subscribe frame (id 2) only after one reply has been read, and the receive
\* loop is entered only after a second reply has been read; messages_received
\* grows only in the receive loop, never when a handshake reply is read.
C19_HandshakeOrdered ==
    [][/\ \A s \in Clients : HandshakeOrder(s)'
       /\ stats'["messages_received"] # stats["messages_received"]
            => \E s \in Clients :
                  /\ pc[s] = "listening"
                  /\ websocket[s].replies = 2 /\ websocket'[s].replies = 2
       /\ \A s \in Clients :
            websocket'[s].replies > websocket[s].replies
               => stats'["messages_received"] = stats["messages_received"]]_vars

\* a frame has been counted in the receive loop after the two replies
C19_Witness ==
    \E s \in Clients :
        /\ pc[s] = "listening"
        /\ Len(frames[s]) = 2 /\ frames[s][1].id = 1 /\ frames[s][2].id = 2
        /\ websocket[s].replies = 2
        /\ stats["messages_received"] = 1

\* C20: on a connection every frame carries an id no earlier frame of that
\* connection used, and no two channels of subscriptions have the same id.
C20_RequestIdsUnique ==
    /\ \A i, j \in 1..Len(lc_ids) : i # j => lc_ids[i] # lc_ids[j]
    /\ \A c1, c2 \in Channels :
         (c1 # c2 /\ subscriptions[c1] # 0 /\ subscriptions[c2] # 0)
            => subscriptions[c1] # subscriptions[c2]

\* reconnections + errors equals the attempts counted by the sessions plus
\* the submissions of the drivers that raised
FailureBalance ==
    stats["reconnections"] + stats["errors"]
        = Sum(reconnect_attempts, Clients) + Sum(drvErr, Chats)

\* C21: a step that adds one to a session's reconnect_attempts adds one to
\* exactly one of reconnections and errors; reconnections changes in no
\* other step, and errors changes otherwise only when a driver's submission
\* raised; so reconnections + errors equals the sum of the sessions'
\* reconnect_attempts plus the number of driver submissions that raised.
C21_AttemptsMatchFailureCounters ==
    [][/\ \A s \in Clients :
            /\ reconnect_attempts'[s] \in {reconnect_attempts[s], reconnect_attempts[s] + 1}
            /\ reconnect_attempts'[s] = reconnect_attempts[s] + 1 =>
                 \/ /\ stats'["reconnections"] = stats["reconnections"] + 1
                    /\ stats'["errors"] = stats["errors"]
                 \/ /\ stats'["errors"] = stats["errors"] + 1
                    /\ stats'["reconnections"] = stats["reconnections"]
       /\ stats'["reconnections"] # stats["reconnections"]
            => \E s \in Clients : reconnect_attempts'[s] = reconnect_attempts[s] + 1
       /\ stats'["errors"] # stats["errors"]
            => \/ \E s \in Clients : reconnect_attempts'[s] = reconnect_attempts[s] + 1
               \/ /\ \E d \in Chats : drvErr'[d] > drvErr[d]
                  /\ stats'["errors"] - stats["errors"]
                       = Sum(drvErr', Chats) - Sum(drvErr, Chats)
       /\ FailureBalance /\ FailureBalance']_vars

\* a session has counted a closed connection and a failed connect, and a
\* driver's submission has raised
C21_Witness ==
    /\ stats["reconnections"] >= 1
    /\ stats["errors"] >= 2
    /\ \E s \in Clients : reconnect_attempts[s] >= 2
    /\ \E d \in Chats : drvErr[d] >= 1
    /\ FailureBalance

\* C22: main replaces the counters by zeros and sets running back to True
\* only in the step that begins a scenario, and it begins a scenario only
\* when every session and driver task of the previous one has ended; a task
\* that has ended takes no further step, so no task of an earlier scenario
\* changes the counters of a later one or sees running become True again.
C22_ResetOnlyAfterDrain ==
    [][/\ scenario' # scenario =>
            /\ scenario' = scenario + 1
            /\ AllTerminal
            /\ orch \in {"created", "done"}
            /\ stats' = ZeroStats /\ running'
       /\ (~running /\ running') => (scenario' = scenario + 1 /\ AllTerminal)
       /\ scenario' = scenario =>
            /\ \A k \in StatKeys : stats'[k] >= stats[k]
            /\ \A s \in Clients : SessionTerminal(s) => pc'[s] = pc[s]
            /\ \A d \in Chats : DriverTerminal(d) => dpc'[d] = dpc[d]
            /\ stats' # stats => orch \in {"sleeping", "gathering"}]_vars

\* the second scenario is running: the counters were reset after the tasks
\* of the first had ended, and its own tasks have counted since
C22_Witness ==
    /\ scenario = 2 /\ running /\ orch = "sleeping"
    /\ \E s \in Clients : pc[s] = "listening"
    /\ stats["connections_created"] = 1
    /\ stats["messages_sent"] >= 1

====
